---- MODULE Spec2Model ----
(***************************************************************************)
(* A model of the HR assistant backend: the session memory store           *)
(* (app/memory_manager.py, app/memory.py, the /sessions handlers of        *)
(* main.py) and the read-only query gate of the text-to-SQL tool           *)
(* (app/hr_database_tools.py, app/tools.py).                               *)
(*                                                                         *)
(* Seven specifications share the variables:                               *)
(*   Spec      the store with every handler that addresses one session,    *)
(*             and cleanup, run to completion one after the other (the     *)
(*             request-per-call model);                                    *)
(*   SpecDeleteAll  the store under add_message, create_session and the    *)
(*             bulk delete of delete_all_sessions;                         *)
(*   SpecConc  two requests on the store whose database statements         *)
(*             interleave;                                                 *)
(*   SpecGate  is_read_only_query applied to a query text;                 *)
(*   SpecTool  answer_database_question, step by step;                     *)
(*   SpecChat  a chat turn, synchronous (main._chat_sync) or streaming     *)
(*             (app/streaming_endpoint.py), on a store that can fail;      *)
(*   SpecAgent the agent graph of app/agent.py, node by node.              *)
(***************************************************************************)
EXTENDS Integers, Sequences, FiniteSets, TLC

VARIABLES
    records,      \* rows of conversation_memories
    messages,     \* rows of memory_messages, in insertion order
    now,          \* the clock: the database's func.now() and the process's
                  \* datetime.now() are taken to agree; cleanup counts it in days
    ret,          \* what the last handler returned to its caller
    procs,        \* SpecConc: each concurrent request's position and locals
    tool,         \* SpecTool: answer_database_question's position and locals
    gate,         \* SpecGate: the last direct call of is_read_only_query
    chat,         \* SpecChat: the chat turn's position, locals and output
    agent         \* SpecAgent: the agent graph's position and state

vars == <<records, messages, now, ret, procs, tool, gate, chat, agent>>

\* ---------------------------------------------------------------- bounds

MaxMsgs == 2            \* rows of memory_messages alive at once
MaxTime == 1            \* the clock stops here
MaxDaysOld == 1         \* largest days_old passed to cleanup
max_context_length == 1 \* MemoryManager(max_context_length), 10 in the source
MaxQueryLen == 3        \* lexemes in a query text

Sessions == {"s1", "s2"}
\* The (role, content, metadata) triples add_message is called with. A
\* metadata mapping is the set of its keys; an omitted one is stored as {}
\* ("metadata or {}"), like an empty one.
Payloads == {[role |-> "user", content |-> "a", metadata |-> {}],
             [role |-> "assistant", content |-> "b", metadata |-> {"ts"}]}

\* Python's None: an absent updated_at, an omitted limit.
None == -1

\* The limits get_context is called with: omitted, falsy, below the window
\* and at or above it.
Limits == {None, 0, 1, 2}
\* The limits get_session_messages and list_sessions are called with.
PageLimits == {1, 2}
DaysOld == 0 .. MaxDaysOld

\* ---------------------------------------------------------------- helpers

Min(a, b) == IF a <= b THEN a ELSE b

Range(s) == {s[i] : i \in 1 .. Len(s)}

Reverse(s) == [i \in 1 .. Len(s) |-> s[Len(s) + 1 - i]]

RECURSIVE SelectIdx(_, _, _)
\* The indexes i >= from of msgs whose row belongs to record mid, ascending.
SelectIdx(msgs, mid, from) ==
    IF from > Len(msgs) THEN <<>>
    ELSE IF msgs[from].memory_id = mid
         THEN <<from>> \o SelectIdx(msgs, mid, from + 1)
         ELSE SelectIdx(msgs, mid, from + 1)

\* db.query(ConversationMemory).filter(session_id == sid): the matching rows.
RowsOf(recs, sid) == {r \in recs : r.session_id = sid}

\* .first() with no ORDER BY: any one matching row.
FirstOf(recs, sid) == RowsOf(recs, sid)

\* ---------------------------------------------------------------- queries

\* db.query(MemoryMessage).filter(memory_id == mid)
\*   .order_by(MemoryMessage.timestamp.desc()).limit(n).all()
\* The database orders by timestamp alone: rows with equal timestamps come in
\* any order, and any of them may fill the last places before the limit.
\* Each result is a sequence of indexes into msgs.
RecentDesc(msgs, mid, n) ==
    LET own == Range(SelectIdx(msgs, mid, 1))
        k == Min(n, Cardinality(own))
    IN {q \in [1 .. k -> own] :
          /\ \A i, j \in 1 .. k : i # j => q[i] # q[j]
          /\ \A i \in 1 .. k : \A j \in 1 .. k :
                i < j => msgs[q[i]].timestamp >= msgs[q[j]].timestamp
          /\ \A x \in own \ Range(q) : \A i \in 1 .. k :
                msgs[x].timestamp <= msgs[q[i]].timestamp}

\* db.query(MemoryMessage).filter(memory_id == mid)
\*   .order_by(MemoryMessage.timestamp.asc()).limit(n).all()
OldestAsc(msgs, mid, n) ==
    LET own == Range(SelectIdx(msgs, mid, 1))
        k == Min(n, Cardinality(own))
    IN {q \in [1 .. k -> own] :
          /\ \A i, j \in 1 .. k : i # j => q[i] # q[j]
          /\ \A i \in 1 .. k : \A j \in 1 .. k :
                i < j => msgs[q[i]].timestamp <= msgs[q[j]].timestamp
          /\ \A x \in own \ Range(q) : \A i \in 1 .. k :
                msgs[x].timestamp >= msgs[q[i]].timestamp}

\* The dictionaries get_context builds from the rows, oldest of the result first.
ContextOf(msgs, q) ==
    [i \in 1 .. Len(q) |->
        [role |-> msgs[q[Len(q) + 1 - i]].role,
         content |-> msgs[q[Len(q) + 1 - i]].content,
         timestamp |-> msgs[q[Len(q) + 1 - i]].timestamp]]

\* ctx of _refresh_context_window: {role, content} of the rows, reversed.
WindowOf(msgs, q) ==
    [i \in 1 .. Len(q) |->
        [role |-> msgs[q[Len(q) + 1 - i]].role,
         content |-> msgs[q[Len(q) + 1 - i]].content]]

\* limit_val = limit or self.max_context_length: None and 0 are both falsy.
limit_val(limit) == IF limit = None \/ limit = 0 THEN max_context_length ELSE limit

\* ---------------------------------------------------------------- rows

\* ConversationMemory(session_id=..., key_points=[], user_preferences={},
\* context_window=[]): created_at by server_default, updated_at unset.
NewRecord(id, sid, t) ==
    [id |-> id, session_id |-> sid, context_window |-> <<>>,
     created_at |-> t, updated_at |-> None]

\* MemoryMessage(memory_id=..., role=..., content=..., message_metadata=...),
\* timestamp by server_default.
NewMessage(mid, role, content, metadata, t) ==
    [memory_id |-> mid, role |-> role, content |-> content, timestamp |-> t,
     message_metadata |-> metadata]

\* A delete that leaves the record's messages behind (no cascade).
DeleteCascade_None(msgs, ids) == msgs

\* db.delete(mem): the relationship's cascade="all, delete-orphan" deletes the
\* record's messages with it.
DeleteCascade(msgs, ids) == SelectSeq(msgs, LAMBDA m : m.memory_id \notin ids)

\* The last handler's call and outcome: op and sid name the call, arg is its
\* limit or days_old; status is "ok" or "error" (an exception reached the
\* caller); msgs, count and flag are the returned list, number and boolean;
\* deleted holds the (id, session_id) of the records the handler deleted and
\* cascaded the number of message rows deleted with them.
NoRet == [op |-> "none", sid |-> "", arg |-> None, status |-> "ok",
          msgs |-> <<>>, count |-> 0, flag |-> FALSE,
          deleted |-> {}, cascaded |-> 0]

\* A request that is not running: no handler, no locals.
IdleProc == [pc |-> "idle", op |-> "none", sid |-> "", role |-> "", content |-> "",
             memory_id |-> 0, ctx |-> <<>>]
Procs == {1, 2}
IdleProcs == [p \in Procs |-> IdleProc]
IdleTool == [pc |-> "idle", generated_sql |-> <<>>, gate_arg |-> <<>>,
             gate_result |-> "none", executed |-> FALSE, executed_sql |-> <<>>,
             answer |-> "none", llm_calls |-> 0]
NoGate == [called |-> FALSE, sql_query |-> <<>>, result |-> "none"]

\* A chat turn not yet begun. user_at and stored_at are the positions in
\* memory_messages of the turn's user and assistant message (0: none);
\* arrived are the events astream_events has produced, frames the frames
\* yielded to the client, parts is final_response_parts, ended whether the
\* event stream ran to its end, delivered what the caller got in the end.
IdleChat == [pc |-> "idle", mode |-> "none", sid |-> "", query |-> <<>>,
             user_at |-> 0, stored_at |-> 0, invoked |-> 0,
             arrived |-> <<>>, frames |-> <<>>, parts |-> <<>>,
             final |-> <<>>, failed |-> "no", ended |-> FALSE,
             delivered |-> [kind |-> "none", text |-> <<>>]]

\* The agent graph before its entry point. node is the node to run next,
\* response and tool_calls are the last model message, add is the outcome of
\* agent_node's add_message call ("none": not called), stored_at the position
\* in memory_messages of the row that call left (0: none), swallowed whether
\* agent_node passed over an exception, steps the runs of agent_node so far.
IdleAgent == [node |-> "entry", sid |-> "", response |-> <<>>, tool_calls |-> FALSE,
              add |-> "none", stored_at |-> 0, swallowed |-> FALSE, steps |-> 0]

\* ---------------------------------------------------------------- Spec

Init ==
    /\ records = {}
    /\ messages = <<>>
    /\ now = 0
    /\ ret = NoRet
    /\ procs = IdleProcs
    /\ tool = IdleTool
    /\ gate = NoGate
    /\ chat = IdleChat
    /\ agent = IdleAgent

\* The clock advances between calls, or does not. The timestamp columns are
\* filled by server_default=func.now(), the database's clock at its own
\* resolution; nothing in the code makes two inserts read different values.
Tick ==
    /\ now < MaxTime
    /\ now' = now + 1
    /\ UNCHANGED <<records, messages, ret, procs, tool, gate, chat, agent>>

\* ---------------------------------------------------------------- handlers

\* The primary key the database gives a new conversation_memories row
\* (Column(Integer, primary_key=True)): a key no row and no request holds.
\* The code only compares keys, so the least free one stands for any.
FreshId(recs, msgs, held) ==
    LET used == {r.id : r \in recs} \cup {msgs[i].memory_id : i \in 1 .. Len(msgs)}
                \cup held
    IN CHOOSE n \in 1 .. Cardinality(used) + 1 :
          n \notin used /\ \A m \in 1 .. n - 1 : m \in used

\* _get_or_create_memory without its lookup: a row is inserted on every call.
get_or_create_memory_no_lookup(recs, sid, id, t) ==
    {[records |-> recs \cup {NewRecord(id, sid, t)}, id |-> id]}

\* MemoryManager._get_or_create_memory: the row found for sid, or a new one.
\* Each outcome is [records, id]: the table afterwards and memory.id.
get_or_create_memory(recs, sid, id, t) ==
    IF FirstOf(recs, sid) # {}
    THEN {[records |-> recs, id |-> r.id] : r \in FirstOf(recs, sid)}
    ELSE {[records |-> recs \cup {NewRecord(id, sid, t)}, id |-> id]}

\* _refresh_context_window with its UPDATE left unfiltered: every record gets
\* the window computed for mid.
refresh_context_window_unfiltered(recs, msgs, mid, t) ==
    {{[r EXCEPT !.context_window = WindowOf(msgs, q), !.updated_at = t] : r \in recs} :
        q \in RecentDesc(msgs, mid, max_context_length)}

\* MemoryManager._refresh_context_window: the rows read back, and the UPDATE
\* of context_window, which also fires updated_at's onupdate=func.now().
\* The set of tables the refresh can leave.
refresh_context_window(recs, msgs, mid, t) ==
    {{IF r.id = mid
      THEN [r EXCEPT !.context_window = WindowOf(msgs, q), !.updated_at = t]
      ELSE r : r \in recs} : q \in RecentDesc(msgs, mid, max_context_length)}

\* MemoryManager.add_message
add_message(sid, role, content, metadata) ==
    /\ Len(messages) < MaxMsgs
    /\ \E g \in get_or_create_memory(records, sid, FreshId(records, messages, {}), now) :
         LET msgs1 == Append(messages, NewMessage(g.id, role, content, metadata, now))
         IN /\ messages' = msgs1
            /\ records' \in refresh_context_window(g.records, msgs1, g.id, now)
    /\ ret' = [NoRet EXCEPT !.op = "add_message", !.sid = sid,
                            !.msgs = <<[role |-> role, content |-> content]>>]
    /\ UNCHANGED <<now, procs, tool, gate, chat, agent>>

\* get_context without its "if not memory" return: memory.id of None raises.
get_context_results_no_guard(recs, msgs, sid, limit) ==
    IF FirstOf(recs, sid) = {}
    THEN {[status |-> "error", msgs |-> <<>>]}
    ELSE {[status |-> "ok", msgs |-> ContextOf(msgs, q)] :
            q \in UNION {RecentDesc(msgs, memory.id, limit_val(limit)) :
                            memory \in FirstOf(recs, sid)}}

\* What MemoryManager.get_context can return on the tables recs and msgs:
\* [] when no record is found, else the rows of the query, reversed.
get_context_results(recs, msgs, sid, limit) ==
    IF FirstOf(recs, sid) = {}
    THEN {[status |-> "ok", msgs |-> <<>>]}
    ELSE {[status |-> "ok", msgs |-> ContextOf(msgs, q)] :
            q \in UNION {RecentDesc(msgs, memory.id, limit_val(limit)) :
                            memory \in FirstOf(recs, sid)}}

\* get_context looking its record up with _get_or_create_memory, as
\* add_message does: an unknown session gets a record.
get_context_lookup_creating(recs, sid, id, t) ==
    {g.records : g \in get_or_create_memory(recs, sid, id, t)}

\* The table conversation_memories after get_context's lookup, a plain
\* db.query(ConversationMemory).filter(...).first(): nothing is added, and
\* the function has no db.add, db.delete or db.commit.
get_context_lookup(recs, sid, id, t) == {recs}

\* MemoryManager.get_context
get_context(sid, limit) ==
    /\ \E out \in get_context_results(records, messages, sid, limit) :
         ret' = [NoRet EXCEPT !.op = "get_context", !.sid = sid, !.arg = limit,
                              !.status = out.status, !.msgs = out.msgs]
    /\ records' \in get_context_lookup(records, sid,
                                       FreshId(records, messages, {}), now)
    /\ UNCHANGED <<messages, now, procs, tool, gate, chat, agent>>

\* The dictionaries built with the role column read for the content too.
SessionMessagesOf_WrongColumn(msgs, q) ==
    [i \in 1 .. Len(q) |->
        [role |-> msgs[q[i]].role, content |-> msgs[q[i]].role,
         ts |-> msgs[q[i]].timestamp]]

\* The dictionaries get_session_messages builds, in the rows' order.
SessionMessagesOf(msgs, q) ==
    [i \in 1 .. Len(q) |->
        [role |-> msgs[q[i]].role, content |-> msgs[q[i]].content,
         ts |-> msgs[q[i]].timestamp]]

\* What main.get_session_messages can return: an empty list when no record
\* is found, else the rows of the query in its order.
get_session_messages_results(recs, msgs, sid, limit) ==
    IF FirstOf(recs, sid) = {}
    THEN {<<>>}
    ELSE {SessionMessagesOf(msgs, q) :
            q \in UNION {OldestAsc(msgs, mem.id, limit) : mem \in FirstOf(recs, sid)}}

\* main.get_session_messages
get_session_messages(sid, limit) ==
    /\ \E out \in get_session_messages_results(records, messages, sid, limit) :
         ret' = [NoRet EXCEPT !.op = "get_session_messages", !.sid = sid,
                              !.arg = limit, !.msgs = out]
    /\ UNCHANGED <<records, messages, now, procs, tool, gate, chat, agent>>

\* db.query(ConversationMemory.session_id)
\*   .order_by(ConversationMemory.created_at.desc()).limit(n).all()
SessionsDesc(recs, n) ==
    LET k == Min(n, Cardinality(recs))
    IN {q \in [1 .. k -> recs] :
          /\ \A i, j \in 1 .. k : i # j => q[i] # q[j]
          /\ \A i \in 1 .. k : \A j \in 1 .. k :
                i < j => q[i].created_at >= q[j].created_at
          /\ \A x \in recs \ Range(q) : \A i \in 1 .. k :
                x.created_at <= q[i].created_at}

\* main.list_sessions
list_sessions(limit) ==
    /\ \E q \in SessionsDesc(records, limit) :
         ret' = [NoRet EXCEPT !.op = "list_sessions", !.arg = limit,
                              !.msgs = [i \in 1 .. Len(q) |-> q[i].session_id]]
    /\ UNCHANGED <<records, messages, now, procs, tool, gate, chat, agent>>

\* main.create_session, with an explicit session_id
create_session(sid) ==
    /\ IF FirstOf(records, sid) # {}
       THEN /\ ret' = [NoRet EXCEPT !.op = "create_session", !.sid = sid,
                                    !.flag = FALSE]
            /\ UNCHANGED records
       ELSE /\ records' = records \cup {NewRecord(FreshId(records, messages, {}), sid, now)}
            /\ ret' = [NoRet EXCEPT !.op = "create_session", !.sid = sid,
                                    !.flag = TRUE]
    /\ UNCHANGED <<messages, now, procs, tool, gate, chat, agent>>

\* main.delete_session: 404 when the session has no record.
delete_session(sid) ==
    /\ IF FirstOf(records, sid) = {}
       THEN /\ ret' = [NoRet EXCEPT !.op = "delete_session", !.sid = sid,
                                    !.status = "error"]
            /\ UNCHANGED <<records, messages>>
       ELSE \E mem \in FirstOf(records, sid) :
              /\ records' = records \ {mem}
              /\ messages' = DeleteCascade(messages, {mem.id})
              /\ ret' = [NoRet EXCEPT !.op = "delete_session", !.sid = sid,
                                      !.flag = TRUE,
                                      !.deleted = {<<mem.id, mem.session_id>>},
                                      !.cascaded = Len(messages) - Len(messages')]
    /\ UNCHANGED <<now, procs, tool, gate, chat, agent>>

\* What db.query(ConversationMemory).delete() followed by db.commit() can do:
\* a bulk DELETE FROM conversation_memories, which does not go through the
\* relationship's cascade. memory_messages.memory_id is a ForeignKey with no
\* ondelete: a database that enforces it refuses the statement while messages
\* refer to a record, one that does not enforce it deletes the records and
\* leaves the messages. Outcomes are [status, records, messages].
bulk_delete_outcomes(recs, msgs) ==
    {[status |-> "ok", records |-> {}, messages |-> msgs]}
    \cup IF \E i \in 1 .. Len(msgs) : \E r \in recs : r.id = msgs[i].memory_id
         THEN {[status |-> "error", records |-> recs, messages |-> msgs]}
         ELSE {}

\* main.delete_all_sessions
delete_all_sessions ==
    /\ \E out \in bulk_delete_outcomes(records, messages) :
         /\ records' = out.records
         /\ messages' = out.messages
         /\ ret' = [NoRet EXCEPT !.op = "delete_all_sessions", !.status = out.status,
                                 !.flag = (out.status = "ok"),
                                 !.count = Cardinality(records)]
    /\ UNCHANGED <<now, procs, tool, gate, chat, agent>>

\* The filter with <= for <: a record updated exactly at the cutoff is old.
IsOld_AtCutoff(r, cutoff) == r.updated_at # None /\ r.updated_at <= cutoff

\* The filter with an absent updated_at taken as infinitely old.
IsOld_NeverUpdated(r, cutoff) == r.updated_at = None \/ r.updated_at < cutoff

\* The filter of cleanup's query: updated_at != None and updated_at < cutoff.
IsOld(r, cutoff) == r.updated_at # None /\ r.updated_at < cutoff

\* MemoryManager.cleanup; the clock counts days.
cleanup(days_old) ==
    LET cutoff == now - days_old
        old_memories == {r \in records : IsOld(r, cutoff)}
    IN /\ records' = records \ old_memories
       /\ messages' = DeleteCascade(messages, {r.id : r \in old_memories})
       /\ ret' = [NoRet EXCEPT !.op = "cleanup", !.arg = days_old,
                               !.count = Cardinality(old_memories),
                               !.deleted = {<<r.id, r.session_id>> : r \in old_memories},
                               !.cascaded = Len(messages) - Len(messages')]
       /\ UNCHANGED <<now, procs, tool, gate, chat, agent>>

Next ==
    \/ Tick
    \/ \E sid \in Sessions, p \in Payloads : add_message(sid, p.role, p.content, p.metadata)
    \/ \E sid \in Sessions, limit \in Limits : get_context(sid, limit)
    \/ \E sid \in Sessions, limit \in PageLimits : get_session_messages(sid, limit)
    \/ \E limit \in PageLimits : list_sessions(limit)
    \/ \E sid \in Sessions : create_session(sid)
    \/ \E sid \in Sessions : delete_session(sid)
    \/ \E days_old \in DaysOld : cleanup(days_old)

Spec == Init /\ [][Next]_vars

\* ---------------------------------------------------------------- claims on Spec

\* The messages of record mid in insertion order, as get_context renders them.
InsertionOrder(msgs, mid) ==
    LET own == SelectIdx(msgs, mid, 1)
    IN [i \in 1 .. Len(own) |->
          [role |-> msgs[own[i]].role, content |-> msgs[own[i]].content,
           timestamp |-> msgs[own[i]].timestamp]]

\* The last n elements of s.
LastN(s, n) == IF Len(s) <= n THEN s ELSE SubSeq(s, Len(s) - n + 1, Len(s))

RECURSIVE IsSubsequence(_, _)
\* s can be read off t from left to right, skipping elements of t.
IsSubsequence(s, t) ==
    IF s = <<>> THEN TRUE
    ELSE IF t = <<>> THEN FALSE
    ELSE IF Head(s) = Head(t) THEN IsSubsequence(Tail(s), Tail(t))
    ELSE IsSubsequence(s, Tail(t))

\* C3: after N > max_context_length add_message calls on a session, get_context
\* with no explicit limit returns exactly the last max_context_length messages
\* inserted, in insertion order.
C3_WindowIsLastInserted ==
    (ret.op = "get_context" /\ ret.arg = None) =>
        \A mem \in RowsOf(records, ret.sid) :
            Len(SelectIdx(messages, mem.id, 1)) > max_context_length =>
                ret.msgs = LastN(InsertionOrder(messages, mem.id), max_context_length)

\* C4: at most one ConversationRecord exists per session identifier;
\* list_sessions shows no identifier twice, and shows every session once when
\* its limit covers the records.
C4_OneRecordPerSession ==
    /\ \A sid \in Sessions : Cardinality(RowsOf(records, sid)) <= 1
    /\ ret.op = "list_sessions" =>
          /\ \A i, j \in 1 .. Len(ret.msgs) : i # j => ret.msgs[i] # ret.msgs[j]
          /\ ret.arg >= Cardinality(records) =>
                \A r \in records : \E i \in 1 .. Len(ret.msgs) :
                    ret.msgs[i] = r.session_id

\* C4's case: a second creation of a session id found the first one's record
\* and created nothing.
C4_Witness ==
    /\ ret.op = "create_session" /\ ~ret.flag
    /\ Cardinality(RowsOf(records, ret.sid)) = 1

\* C6: every get_context result lists the session's messages in the order of
\* their add_message calls, none reordered: it is a subsequence of the
\* session's messages in insertion order, whatever their timestamps.
C6_InsertionOrderKept ==
    ret.op = "get_context" =>
        \A mem \in RowsOf(records, ret.sid) :
            IsSubsequence(ret.msgs, InsertionOrder(messages, mem.id))

\* C7: after delete_session or cleanup deleted a record, no message of that
\* record is left, get_context of its session returns an empty sequence and
\* get_session_messages returns an empty list.
C7_DeleteCascades ==
    ret.op \in {"delete_session", "cleanup"} =>
        \A d \in ret.deleted :
            /\ \A i \in 1 .. Len(messages) : messages[i].memory_id # d[1]
            /\ \A limit \in Limits :
                  get_context_results(records, messages, d[2], limit)
                     = {[status |-> "ok", msgs |-> <<>>]}
            /\ \A limit \in PageLimits :
                  get_session_messages_results(records, messages, d[2], limit) = {<<>>}

\* C7's case: delete_session deleted a record that owned messages.
C7_Witness ==
    ret.op = "delete_session" /\ ret.deleted # {} /\ ret.cascaded > 0

\* C8: a cleanup(days_old) step removes exactly the records last updated
\* strictly before now - days_old, and returns how many it removed.
C8_CleanupStrictlyOlder ==
    [][(ret'.op = "cleanup" /\ now' = now) =>
          /\ records \ records' =
                {r \in records : r.updated_at # None /\ r.updated_at < now - ret'.arg}
          /\ records' \subseteq records
          /\ ret'.count = Cardinality(records \ records')]_vars

\* C8's case: cleanup removed one record and kept one updated exactly at the
\* cutoff.
C8_Witness ==
    /\ ret.op = "cleanup" /\ ret.count = 1
    /\ \E r \in records : r.updated_at = now - ret.arg

\* C9: a cleanup step never removes a record that has no update timestamp.
C9_NeverUpdatedKept ==
    [][(ret'.op = "cleanup" /\ now' = now) =>
          \A r \in records : r.updated_at = None => r \in records']_vars

\* C9's case: cleanup ran over a never-updated record created before the
\* cutoff, and the record is still there.
C9_Witness ==
    /\ ret.op = "cleanup"
    /\ \E r \in records : r.updated_at = None /\ r.created_at < now - ret.arg

\* C10: get_context on a session id with no record returns an empty sequence
\* and raises nothing.
C10_UnknownSessionEmpty ==
    (ret.op = "get_context" /\ RowsOf(records, ret.sid) = {}) =>
        ret.msgs = <<>> /\ ret.status = "ok"

\* C10's case: get_context was called for a session without a record while
\* another session holds messages.
C10_Witness ==
    /\ ret.op = "get_context" /\ RowsOf(records, ret.sid) = {}
    /\ Len(messages) > 0

\* C11: get_context is read-only: a call, for any session id, existing or
\* not, and any limit, leaves the records and the messages as they were, and
\* so creates no session.
C11_GetContextReadOnly ==
    [][ret'.op = "get_context" =>
          /\ records' = records
          /\ messages' = messages
          /\ {r.session_id : r \in records'} = {r.session_id : r \in records}]_vars

\* C11's case: get_context returned for a session without a record, next to
\* a session that has one, and the asked session still has none.
C11_Witness ==
    /\ ret.op = "get_context" /\ ret.arg # None
    /\ RowsOf(records, ret.sid) = {}
    /\ records # {}

\* The rows of memory_messages owned by the records of session sid, in
\* insertion order.
MessagesOfSession(recs, msgs, sid) ==
    SelectSeq(msgs, LAMBDA m : \E r \in RowsOf(recs, sid) : r.id = m.memory_id)

\* C21: session identifiers partition the data: an add_message,
\* create_session or delete_session addressed to session A leaves the record,
\* the cached window and the messages of every other session B as they were,
\* and get_context(B) can return what it could return before.
C21_SessionsPartitioned ==
    [][ret'.op \in {"add_message", "create_session", "delete_session"} =>
          \A B \in Sessions \ {ret'.sid} :
              /\ RowsOf(records', B) = RowsOf(records, B)
              /\ MessagesOfSession(records', messages', B)
                    = MessagesOfSession(records, messages, B)
              /\ \A limit \in Limits :
                    get_context_results(records', messages', B, limit)
                       = get_context_results(records, messages, B, limit)]_vars

\* C21's case: a message was added to one session while another session
\* holds a record with a message of its own.
C21_Witness ==
    /\ ret.op = "add_message"
    /\ \E B \in Sessions \ {ret.sid} :
          /\ RowsOf(records, B) # {}
          /\ MessagesOfSession(records, messages, B) # <<>>

\* C22: a request that references an absent session is answered with a
\* normal result, never with an exception, and leaves the store unchanged;
\* so is delete_session on a session id without a record.
C22_AbsentSessionNormalResult ==
    (/\ ret.op \in {"get_context", "get_session_messages", "delete_session"}
     /\ ret.op = "delete_session" => ~ret.flag
     /\ RowsOf(records, ret.sid) = {}) =>
        ret.status = "ok"

\* C24: get_session_messages(session_id, limit) returns recent messages:
\* when the session holds more than limit messages, the result is the limit
\* most recently added ones, in chronological order.
C24_SessionMessagesRecent ==
    ret.op = "get_session_messages" =>
        \A mem \in RowsOf(records, ret.sid) :
            Len(SelectIdx(messages, mem.id, 1)) > ret.arg =>
                ret.msgs = LastN(SessionMessagesOf(messages,
                                                   SelectIdx(messages, mem.id, 1)),
                                 ret.arg)

\* C25: a message added with add_message(session, role, content, metadata),
\* whatever the metadata, is returned by get_session_messages for that
\* session with the same role and content, as long as the session has not
\* been deleted and holds no more than limit messages.
C25_RoleAndContentPreserved ==
    /\ ret.op = "add_message" =>
          \A limit \in PageLimits :
              Len(MessagesOfSession(records, messages, ret.sid)) <= limit =>
                 \A out \in get_session_messages_results(records, messages,
                                                          ret.sid, limit) :
                    \E i \in 1 .. Len(out) :
                        /\ out[i].role = ret.msgs[1].role
                        /\ out[i].content = ret.msgs[1].content
    /\ ret.op = "get_session_messages" =>
          LET own == MessagesOfSession(records, messages, ret.sid)
          IN Len(own) <= ret.arg =>
                /\ Len(ret.msgs) = Len(own)
                /\ \A k \in 1 .. Len(own) : \E i \in 1 .. Len(ret.msgs) :
                       /\ ret.msgs[i].role = own[k].role
                       /\ ret.msgs[i].content = own[k].content

\* C25's case: a message with a metadata mapping was added to a session that
\* already held a message without one.
C25_Witness ==
    /\ ret.op = "add_message"
    /\ Len(MessagesOfSession(records, messages, ret.sid)) = 2
    /\ messages[Len(messages)].message_metadata = {"ts"}
    /\ messages[1].message_metadata = {}

\* C26: after every completed add_message, run one after the other, the
\* record's cached context_window is the {role, content} projection of the
\* most recent max_context_length messages of the session in insertion order.
C26_CachedWindowIsRecent ==
    ret.op = "add_message" =>
        \A mem \in RowsOf(records, ret.sid) :
            LET own == LastN(SelectIdx(messages, mem.id, 1), max_context_length)
            IN mem.context_window =
                  [i \in 1 .. Len(own) |->
                      [role |-> messages[own[i]].role,
                       content |-> messages[own[i]].content]]

\* C27: for every explicitly given limit, 0 included, get_context(session,
\* limit) returns at most limit messages, min(limit, message count) of them;
\* max_context_length is used only when no limit is given.
C27_ExplicitLimitHonoured ==
    (ret.op = "get_context" /\ ret.arg # None) =>
        /\ Len(ret.msgs) <= ret.arg
        /\ Len(ret.msgs)
              = Min(ret.arg, Len(MessagesOfSession(records, messages, ret.sid)))

\* The store under the requests that fill it and the bulk delete of
\* DELETE /sessions.
InitDeleteAll == Init

NextDeleteAll ==
    \/ Tick
    \/ \E sid \in Sessions, p \in Payloads : add_message(sid, p.role, p.content, p.metadata)
    \/ \E sid \in Sessions : create_session(sid)
    \/ delete_all_sessions

SpecDeleteAll == InitDeleteAll /\ [][NextDeleteAll]_vars

\* C23: after delete_all_sessions has returned, no ConversationRecord and no
\* MemoryMessage remains, whatever the store held before, so no message is
\* left without its owning record.
C23_DeleteAllLeavesNothing ==
    ret.op = "delete_all_sessions" =>
        /\ ret.status = "ok"
        /\ records = {}
        /\ messages = <<>>

\* ---------------------------------------------------------------- SpecConc

\* Two requests, one each, run add_message or create_session at once. Each database
\* statement (a query, or a flush with its commit) is one step, and the steps
\* of the two requests interleave: the table conversation_memories has an
\* index on session_id and no unique constraint, so nothing serialises them.

\* The keys the running requests hold in memory.id.
HeldIds == {procs[p].memory_id : p \in Procs} \ {0}

\* A request arrives: add_message(sid, role, content) or create_session(sid).
ProcStart(p, op, sid, role, content) ==
    /\ procs[p].pc = "idle"
    /\ procs' = [procs EXCEPT ![p] = [IdleProc EXCEPT !.pc = "lookup", !.op = op,
                                          !.sid = sid, !.role = role,
                                          !.content = content]]
    /\ UNCHANGED <<records, messages, now, ret, tool, gate, chat, agent>>

\* db.query(ConversationMemory).filter(session_id == sid).first(), in
\* _get_or_create_memory and in create_session.
ProcLookup(p) ==
    /\ procs[p].pc = "lookup"
    /\ IF FirstOf(records, procs[p].sid) = {}
       THEN procs' = [procs EXCEPT ![p].pc = "create"]
       ELSE \E memory \in FirstOf(records, procs[p].sid) :
              procs' = [procs EXCEPT
                          ![p].pc = IF procs[p].op = "add_message"
                                    THEN "insert_message" ELSE "done",
                          ![p].memory_id = memory.id]
    /\ UNCHANGED <<records, messages, now, ret, tool, gate, chat, agent>>

\* db.add(memory); db.commit(): the INSERT into conversation_memories.
ProcCreate(p) ==
    /\ procs[p].pc = "create"
    /\ LET id == FreshId(records, messages, HeldIds)
       IN /\ records' = records \cup {NewRecord(id, procs[p].sid, now)}
          /\ procs' = [procs EXCEPT
                         ![p].pc = IF procs[p].op = "add_message"
                                   THEN "insert_message" ELSE "done",
                         ![p].memory_id = id]
    /\ UNCHANGED <<messages, now, ret, tool, gate, chat, agent>>

\* db.add(message); db.commit(): the INSERT into memory_messages.
ProcInsertMessage(p) ==
    /\ procs[p].pc = "insert_message"
    /\ Len(messages) < MaxMsgs
    /\ messages' = Append(messages, NewMessage(procs[p].memory_id, procs[p].role,
                                               procs[p].content, {}, now))
    /\ procs' = [procs EXCEPT ![p].pc = "query"]
    /\ UNCHANGED <<records, now, ret, tool, gate, chat, agent>>

\* _refresh_context_window: the query for the recent messages.
ProcQueryRecent(p) ==
    /\ procs[p].pc = "query"
    /\ \E q \in RecentDesc(messages, procs[p].memory_id, max_context_length) :
         procs' = [procs EXCEPT ![p].pc = "update", ![p].ctx = WindowOf(messages, q)]
    /\ UNCHANGED <<records, messages, now, ret, tool, gate, chat, agent>>

\* _refresh_context_window: the UPDATE of context_window, and the commit.
ProcUpdateWindow(p) ==
    /\ procs[p].pc = "update"
    /\ records' = {IF r.id = procs[p].memory_id
                   THEN [r EXCEPT !.context_window = procs[p].ctx, !.updated_at = now]
                   ELSE r : r \in records}
    /\ procs' = [procs EXCEPT ![p].pc = "done"]
    /\ UNCHANGED <<messages, now, ret, tool, gate, chat, agent>>

\* The handler returns; the session is closed and its locals are gone.
ProcReturn(p) ==
    /\ procs[p].pc = "done"
    /\ procs' = [procs EXCEPT ![p] = [IdleProc EXCEPT !.pc = "returned",
                                          !.op = procs[p].op, !.sid = procs[p].sid]]
    /\ UNCHANGED <<records, messages, now, ret, tool, gate, chat, agent>>

\* The two requests meet an empty store, or one where create_session("s1")
\* has run.
InitConc ==
    /\ records \in {{}, {NewRecord(1, "s1", 0)}}
    /\ messages = <<>>
    /\ now = 0
    /\ ret = NoRet
    /\ procs = IdleProcs
    /\ tool = IdleTool
    /\ gate = NoGate
    /\ chat = IdleChat
    /\ agent = IdleAgent

NextConc ==
    \/ Tick
    \/ \E p \in Procs, sid \in Sessions, x \in Payloads :
         ProcStart(p, "add_message", sid, x.role, x.content)
    \/ \E p \in Procs, sid \in Sessions : ProcStart(p, "create_session", sid, "", "")
    \/ \E p \in Procs : ProcLookup(p)
    \/ \E p \in Procs : ProcCreate(p)
    \/ \E p \in Procs : ProcInsertMessage(p)
    \/ \E p \in Procs : ProcQueryRecent(p)
    \/ \E p \in Procs : ProcUpdateWindow(p)
    \/ \E p \in Procs : ProcReturn(p)

SpecConc == InitConc /\ [][NextConc]_vars

\* C5: two concurrent first requests for the same new session id do not
\* create two ConversationRecords for it.
C5_NoDuplicateUnderRace ==
    \A sid \in Sessions : Cardinality(RowsOf(records, sid)) <= 1

\* C28: when two add_message calls on the same existing session run
\* concurrently, their statements interleaved in any way, then once both have
\* returned both messages are stored and the cached context_window is the
\* most recent max_context_length messages of the session, as a recomputation
\* on the final table would give it.
C28_ConcurrentWindowCurrent ==
    (/\ \A p \in Procs : procs[p].pc = "returned" /\ procs[p].op = "add_message"
     /\ procs[1].sid = procs[2].sid
     /\ Cardinality(RowsOf(records, procs[1].sid)) = 1) =>
        \A mem \in RowsOf(records, procs[1].sid) :
            /\ Len(SelectIdx(messages, mem.id, 1)) = 2
            /\ mem.context_window \in
                  {WindowOf(messages, q) :
                     q \in RecentDesc(messages, mem.id, max_context_length)}

\* ---------------------------------------------------------------- the query gate

\* A query text is the sequence of its lexemes. Words: the keyword SELECT in
\* two spellings, a statement keyword that writes, a name, and a name that
\* begins with the letters of SELECT; then the semicolon, whitespace, a
\* single-line comment, and "(((": parentheses nested deeper than the parser
\* groups, on which sqlparse.parse raises.
Words == {"SELECT", "select", "DROP", "x", "selected"}
Lexemes == Words \cup {";", " ", "--c", "((("}

\* Two words with nothing between them would read as one longer word.
Queries ==
    {q \in UNION {[1 .. n -> Lexemes] : n \in 0 .. MaxQueryLen} :
        \A i \in 1 .. Len(q) - 1 : ~(q[i] \in Words /\ q[i + 1] \in Words)}

RECURSIVE LStrip(_)
LStrip(q) == IF q # <<>> /\ Head(q) = " " THEN LStrip(Tail(q)) ELSE q

\* str.strip(): leading and trailing whitespace removed.
Strip(q) == Reverse(LStrip(Reverse(LStrip(q))))

\* str.upper(), lexeme by lexeme.
UpperLexeme(w) ==
    CASE w = "select" -> "SELECT"
      [] w = "selected" -> "SELECTED"
      [] w = "x" -> "X"
      [] w = "--c" -> "--C"
      [] OTHER -> w

Upper(q) == [i \in 1 .. Len(q) |-> UpperLexeme(q[i])]

\* clean_query.startswith("SELECT"): the text's first six letters.
StartsWithSelect(q) == q # <<>> /\ Head(q) \in {"SELECT", "SELECTED"}

\* sqlparse's token types: whitespace, comments, and the DML and DDL keywords.
IsWhitespace(w) == w = " "
IsComment(w) == w = "--c"
IsStatementKeyword(w) == w \in {"SELECT", "select", "DROP"}

RECURSIVE SplitStatements(_, _, _, _)
\* sqlparse.parse: the statement splitter. A semicolon ends a statement; the
\* whitespace and comments after it still belong to it; the next other token
\* starts a new statement. What is left at the end is a statement unless it
\* is all whitespace.
SplitStatements(q, i, cur, consume_ws) ==
    IF i > Len(q)
    THEN IF cur # <<>> /\ \E k \in 1 .. Len(cur) : ~IsWhitespace(cur[k])
         THEN <<cur>> ELSE <<>>
    ELSE IF consume_ws /\ ~IsWhitespace(q[i]) /\ ~IsComment(q[i])
         THEN <<cur>> \o SplitStatements(q, i, <<>>, FALSE)
         ELSE SplitStatements(q, i + 1, Append(cur, q[i]), consume_ws \/ q[i] = ";")

\* parsed = sqlparse.parse(sql_query)
sqlparse_parse(q) == SplitStatements(q, 1, <<>>, FALSE)

\* sqlparse.parse(sql_query) raises instead of returning: the text nests
\* deeper than the parser's grouping goes.
sqlparse_raises(q) == \E i \in 1 .. Len(q) : q[i] = "((("

\* get_type looking at the statement's very first token, whitespace or not.
get_type_no_skip(stmt) ==
    IF stmt = <<>> THEN "UNKNOWN"
    ELSE IF IsStatementKeyword(Head(stmt)) THEN UpperLexeme(Head(stmt))
    ELSE "UNKNOWN"

RECURSIVE get_type(_)
\* Statement.get_type(): the first token that is neither whitespace nor a
\* comment, upper-cased if it is a DML or DDL keyword, else UNKNOWN.
get_type(stmt) ==
    IF stmt = <<>> THEN "UNKNOWN"
    ELSE IF IsWhitespace(Head(stmt)) \/ IsComment(Head(stmt)) THEN get_type(Tail(stmt))
    ELSE IF IsStatementKeyword(Head(stmt)) THEN UpperLexeme(Head(stmt))
    ELSE "UNKNOWN"

\* is_read_only_query without its startswith("SELECT") test: the parser decides.
is_read_only_query_no_prefix(sql_query) ==
    IF sqlparse_raises(sql_query) \/ sqlparse_parse(sql_query) = <<>> THEN "raise"
    ELSE IF get_type(sqlparse_parse(sql_query)[1]) = "SELECT" THEN "true" ELSE "false"

\* is_read_only_query: "true", "false", or "raise" when sqlparse.parse raises
\* or parsed[0] does not exist; the function has no try.
is_read_only_query(sql_query) ==
    IF ~StartsWithSelect(Upper(Strip(sql_query))) THEN "false"
    ELSE IF sqlparse_raises(sql_query) THEN "raise"
    ELSE IF sqlparse_parse(sql_query) = <<>> THEN "raise"
    ELSE IF get_type(sqlparse_parse(sql_query)[1]) = "SELECT" THEN "true" ELSE "false"

\* A call of is_read_only_query on any text.
InitGate ==
    /\ records = {} /\ messages = <<>> /\ now = 0 /\ ret = NoRet
    /\ procs = IdleProcs /\ tool = IdleTool
    /\ chat = IdleChat /\ agent = IdleAgent
    /\ gate \in {[NoGate EXCEPT !.sql_query = q] : q \in Queries}

IsReadOnlyCall ==
    /\ ~gate.called
    /\ gate' = [gate EXCEPT !.called = TRUE, !.result = is_read_only_query(gate.sql_query)]
    /\ UNCHANGED <<records, messages, now, ret, procs, tool, chat, agent>>

NextGate == IsReadOnlyCall

SpecGate == InitGate /\ [][NextGate]_vars

\* ---------------------------------------------------------------- the text-to-SQL tool

\* A rejection is passed over: the tool goes on as if the gate had accepted.
AfterGate_RejectIgnored(result) ==
    IF result = "raise" THEN "raised" ELSE "gated"

\* The check is left out: whatever the gate says, the tool goes on to execute.
AfterGate_NoCheck(result) == "gated"

\* if not is_read_only_query(generated_sql): return the error text; an
\* exception of the gate leaves the tool.
AfterGate(result) ==
    IF result = "true" THEN "gated"
    ELSE IF result = "false" THEN "rejected" ELSE "raised"

\* generated_sql = sql_generation_llm.invoke(sql_prompt_text).content.strip()
ToolGenerate(content) ==
    /\ tool.pc = "idle"
    /\ tool' = [IdleTool EXCEPT !.pc = "generated", !.generated_sql = Strip(content),
                                !.llm_calls = 1]
    /\ UNCHANGED <<records, messages, now, ret, procs, gate, chat, agent>>

\* The call of is_read_only_query(generated_sql) and the branch on its result.
ToolGate ==
    /\ tool.pc = "generated"
    /\ LET result == is_read_only_query(tool.generated_sql)
       IN tool' = [tool EXCEPT !.pc = AfterGate(result),
                               !.gate_arg = tool.generated_sql,
                               !.gate_result = result,
                               !.answer = IF AfterGate(result) = "rejected"
                                          THEN "unsafe" ELSE "none"]
    /\ UNCHANGED <<records, messages, now, ret, procs, gate, chat, agent>>

\* db.execute(text(generated_sql)) and what follows: no rows, rows handed to
\* the synthesis model, or an exception turned into an error text.
ToolExecute ==
    /\ tool.pc = "gated"
    /\ \E outcome \in {"no_rows", "synthesised", "execution_error"} :
         tool' = [tool EXCEPT !.pc = "returned", !.executed = TRUE,
                              !.executed_sql = tool.generated_sql,
                              !.answer = outcome,
                              !.llm_calls = IF outcome = "synthesised"
                                            THEN tool.llm_calls + 1
                                            ELSE tool.llm_calls]
    /\ UNCHANGED <<records, messages, now, ret, procs, gate, chat, agent>>

\* The tool call is over; the next one starts from scratch.
ToolReturn ==
    /\ tool.pc \in {"rejected", "raised", "returned"}
    /\ tool' = IdleTool
    /\ UNCHANGED <<records, messages, now, ret, procs, gate, chat, agent>>

InitTool == Init

NextTool ==
    \/ \E content \in Queries : ToolGenerate(content)
    \/ ToolGate
    \/ ToolExecute
    \/ ToolReturn

SpecTool == InitTool /\ [][NextTool]_vars

\* ---------------------------------------------------------------- claims on the gate and the tool

\* C1: is_read_only_query returns false for every text that parses to more
\* than one statement.
C1_MultiStatementRejected ==
    (gate.called /\ Len(sqlparse_parse(gate.sql_query)) > 1) => gate.result = "false"

\* C2: the tool executes generated text only after is_read_only_query has
\* returned true for that exact text.
C2_ExecuteOnlyAfterGate ==
    tool.executed =>
        /\ tool.gate_result = "true"
        /\ tool.gate_arg = tool.executed_sql
        /\ is_read_only_query(tool.executed_sql) = "true"

\* C2's case: a generated text passed the gate and was executed.
C2_Witness ==
    tool.executed /\ tool.pc = "returned" /\ tool.gate_result = "true"

\* C12: is_read_only_query fails closed: on no text does an exception reach
\* its caller, and on a text on which the parser raises or yields no
\* statement it returns false.
C12_FailsClosed ==
    gate.called =>
        /\ gate.result # "raise"
        /\ (sqlparse_raises(gate.sql_query) \/ sqlparse_parse(gate.sql_query) = <<>>)
              => gate.result = "false"

\* The text's first lexeme after leading whitespace, upper-cased, is one that
\* begins with the letters SELECT.
BeginsWithSelect(q) ==
    \E i \in 1 .. Len(q) :
        /\ \A j \in 1 .. i - 1 : q[j] = " "
        /\ q[i] \in {"SELECT", "select", "selected"}

\* C13: is_read_only_query returns false for every text whose trimmed,
\* upper-cased form does not begin with SELECT, whatever the parser would
\* make of the text.
C13_NonSelectPrefixRejected ==
    (gate.called /\ ~BeginsWithSelect(gate.sql_query)) => gate.result = "false"

\* C13's case: the gate returned false for a comment followed by a SELECT
\* statement, which the parser classifies as a SELECT.
C13_Witness ==
    /\ gate.called /\ gate.result = "false"
    /\ Len(gate.sql_query) >= 2
    /\ gate.sql_query[1] = "--c" /\ gate.sql_query[Len(gate.sql_query)] = "SELECT"
    /\ ~sqlparse_raises(gate.sql_query)
    /\ get_type(sqlparse_parse(gate.sql_query)[1]) = "SELECT"

\* A single well-formed SELECT statement: whitespace, the keyword SELECT in
\* either spelling, a body free of semicolons, of further statement keywords
\* and of over-deep nesting, at most one closing semicolon, whitespace.
WellFormedSelect(q) ==
    LET t == Strip(q)
        body == IF t # <<>> /\ t[Len(t)] = ";" THEN SubSeq(t, 1, Len(t) - 1) ELSE t
    IN /\ body # <<>>
       /\ Head(body) \in {"SELECT", "select"}
       /\ \A i \in 2 .. Len(body) : body[i] \in {"x", "selected", " ", "--c"}

C15_RejectionStops ==
    [][(tool'.gate_result = "false" =>
            /\ tool'.pc = "rejected"
            /\ tool'.answer = "unsafe"
            /\ ~tool'.executed
            /\ tool'.llm_calls = 1)
       /\ (tool.pc = "rejected" => tool' = IdleTool)]_vars

\* C15's case: the gate rejected a generated text that is not a SELECT.
C15_Witness ==
    /\ tool.pc = "rejected" /\ tool.gate_result = "false"
    /\ tool.generated_sql # <<>> /\ Head(tool.generated_sql) = "DROP"

\* ---------------------------------------------------------------- the store, failing

\* add_message with the failure of its INSERT passed over: the call returns
\* as if the message had been written.
add_message_outcomes_dropping(recs, msgs, sid, role, content, metadata, t) ==
    {[status |-> "ok", records |-> g.records, messages |-> msgs] :
        g \in get_or_create_memory(recs, sid, FreshId(recs, msgs, {}), t)}

\* What MemoryManager.add_message can do on a store whose statements can
\* fail. add_message has no try: a failure in _get_or_create_memory, in the
\* INSERT of the message or in _refresh_context_window leaves the function
\* as an exception, with what was committed before it left in the tables.
add_message_outcomes(recs, msgs, sid, role, content, metadata, t) ==
    LET created == get_or_create_memory(recs, sid, FreshId(recs, msgs, {}), t)
    IN {[status |-> "raise", records |-> recs, messages |-> msgs]}
       \cup {[status |-> "raise", records |-> g.records, messages |-> msgs] :
                g \in created}
       \cup {[status |-> "raise", records |-> g.records,
              messages |-> Append(msgs, NewMessage(g.id, role, content, metadata, t))] :
                g \in created}
       \cup UNION {{[status |-> "ok", records |-> r,
                     messages |-> Append(msgs, NewMessage(g.id, role, content, metadata, t))] :
                       r \in refresh_context_window(g.records,
                                Append(msgs, NewMessage(g.id, role, content, metadata, t)),
                                g.id, t)} :
                     g \in created}

\* ---------------------------------------------------------------- SpecChat

\* One chat turn at a time, statement by statement. The clock stands still:
\* nothing in a turn depends on the timestamps.
\* A text is the sequence of its pieces: "b" is visible text, " " whitespace.
MaxEvents == 2          \* events astream_events produces in one turn

\* What the model can answer, as one message or as one streamed chunk: text,
\* whitespace, or nothing.
Replies == {<<"b">>, <<" ">>, <<>>}

\* final_response = "Response completed successfully."
CompletedText == <<"Response completed successfully.">>

\* sid = session_id or "default"
ChatSid(session_id) == IF session_id = "" THEN "default" ELSE session_id

\* The events of astream_events(initial_state, version="v2") that the relay
\* tells apart: by kind, by the chunk's content, by the chain's name.
Events ==
    {[event |-> "on_chat_model_start", content |-> <<>>, name |-> ""],
     [event |-> "on_tool_start", content |-> <<>>, name |-> "tool"],
     [event |-> "on_tool_end", content |-> <<>>, name |-> "tool"],
     [event |-> "on_chain_start", content |-> <<>>, name |-> "hr_database_agent"],
     [event |-> "on_chain_start", content |-> <<>>, name |-> "LangGraph"],
     [event |-> "on_chain_end", content |-> <<>>, name |-> "hr_database_agent"],
     [event |-> "on_chain_end", content |-> <<>>, name |-> "LangGraph"]}
    \cup {[event |-> "on_chat_model_stream", content |-> c, name |-> ""] : c \in Replies}

\* "agent" in chain_name.lower()
IsAgentChain(name) == name = "hr_database_agent"

\* The frame type the relay yields for an event, "none" when it yields nothing.
FrameType(e) ==
    CASE e.event = "on_chat_model_start" -> "llm_start"
      [] e.event = "on_chat_model_stream" -> IF e.content # <<>> THEN "token" ELSE "none"
      [] e.event = "on_tool_start" -> "tool_start"
      [] e.event = "on_tool_end" -> "tool_end"
      [] e.event = "on_chain_start" -> IF IsAgentChain(e.name) THEN "agent_start" ELSE "none"
      [] e.event = "on_chain_end" -> IF IsAgentChain(e.name) THEN "agent_end" ELSE "none"
      [] OTHER -> "none"

\* A frame: its type, its text, and the number of the event it is for.
Frame(type, text, src) == [type |-> type, text |-> text, src |-> src]

\* The relay putting each new frame before the ones already sent.
Relay_Prepending(frames, e, n) ==
    IF FrameType(e) = "none" THEN frames
    ELSE <<Frame(FrameType(e), e.content, n)>> \o frames

\* The body of the async for: the frames sent once event e, the n-th to
\* arrive, has been handled. Each yield follows the frames before it.
Relay(frames, e, n) ==
    IF FrameType(e) = "none" THEN frames
    ELSE Append(frames, Frame(FrameType(e), e.content, n))

\* final_response_parts after event e: a chunk with content is appended.
Parts(parts, e) ==
    IF e.event = "on_chat_model_stream" /\ e.content # <<>>
    THEN Append(parts, e.content) ELSE parts

RECURSIVE Join(_)
\* "".join(final_response_parts)
Join(parts) == IF parts = <<>> THEN <<>> ELSE Head(parts) \o Join(Tail(parts))

\* hr_agent_system.invoke(initial_state): a final message, or an exception.
AgentOutcomes ==
    {[status |-> "ok", text |-> r] : r \in Replies}
    \cup {[status |-> "raise", text |-> <<>>]}

\* An except block that undoes the turn: the user message is taken out again.
ExceptStore_Rollback(msgs, user_at) ==
    IF user_at = 0 THEN msgs
    ELSE SubSeq(msgs, 1, user_at - 1) \o SubSeq(msgs, user_at + 1, Len(msgs))

\* memory_messages after an except block of _chat_sync or stream_hr_response
\* has run: the blocks build the error answer and touch no table.
ExceptStore(msgs, user_at) == msgs

\* An exception in a streaming turn ending the stream with no frame.
ChatFail_NoFrame(c, where) ==
    [c EXCEPT !.pc = "done", !.failed = where,
              !.delivered = [kind |-> "error", text |-> <<"error">>]]

\* The turn after an exception: _chat_sync answers {"error": "Agent Error: ..."}
\* with status 500; stream_hr_response yields one error frame, "Setup error"
\* from the outer except, "Streaming error" from the inner one.
ChatFail(c, where) ==
    LET text == IF c.mode = "sync" THEN <<"Agent Error">>
                ELSE IF where = "setup" THEN <<"Setup error">>
                ELSE <<"Streaming error">>
    IN [c EXCEPT !.pc = "done", !.failed = where,
                 !.frames = IF c.mode = "stream"
                            THEN Append(c.frames, Frame("error", text, 0))
                            ELSE c.frames,
                 !.delivered = [kind |-> "error", text |-> text]]

\* The turn after its last statement: return JSONResponse({"response":
\* response_text}), or the yield of the complete frame.
ChatComplete(c) ==
    [c EXCEPT !.pc = "done",
              !.frames = IF c.mode = "stream"
                         THEN Append(c.frames, Frame("complete", c.final, 0))
                         ELSE c.frames,
              !.delivered = [kind |-> IF c.mode = "stream" THEN "complete"
                                      ELSE "response",
                             text |-> c.final]]

\* A request arrives at /chat (mode "sync") or /chat/stream (mode "stream").
ChatStart(mode, session_id) ==
    /\ chat.pc = "idle"
    /\ Len(messages) + 2 <= MaxMsgs
    /\ chat' = [IdleChat EXCEPT !.pc = "add_user", !.mode = mode,
                                !.sid = ChatSid(session_id), !.query = <<"a">>]
    /\ UNCHANGED <<records, messages, now, ret, procs, tool, gate, agent>>

\* memory.add_message(sid, "user", query, ...)
ChatAddUser ==
    /\ chat.pc = "add_user"
    /\ \E out \in add_message_outcomes(records, messages, chat.sid, "user",
                                        chat.query, {"ts"}, now) :
         LET at == IF Len(out.messages) > Len(messages) THEN Len(out.messages) ELSE 0
         IN /\ records' = out.records
            /\ IF out.status = "ok"
               THEN /\ messages' = out.messages
                    /\ chat' = [chat EXCEPT !.pc = "get_context", !.user_at = at]
               ELSE /\ messages' = ExceptStore(out.messages, at)
                    /\ chat' = ChatFail([chat EXCEPT !.user_at = at], "setup")
    /\ UNCHANGED <<now, ret, procs, tool, gate, agent>>

\* ctx = memory.get_context(sid) and the building of initial_state; in a
\* streaming turn the start frame follows. The read can fail.
ChatGetContext ==
    /\ chat.pc = "get_context"
    /\ \E ok \in BOOLEAN :
         IF ok
         THEN /\ chat' = IF chat.mode = "sync"
                         THEN [chat EXCEPT !.pc = "invoke"]
                         ELSE [chat EXCEPT !.pc = "events", !.invoked = 1,
                                           !.frames = <<Frame("start", <<>>, 0)>>]
              /\ UNCHANGED messages
         ELSE /\ chat' = ChatFail(chat, "setup")
              /\ messages' = ExceptStore(messages, chat.user_at)
    /\ UNCHANGED <<records, now, ret, procs, tool, gate, agent>>

\* response = hr_agent_system.invoke(initial_state), in _chat_sync
ChatInvoke ==
    /\ chat.pc = "invoke"
    /\ \E out \in AgentOutcomes :
         IF out.status = "ok"
         THEN /\ chat' = [chat EXCEPT !.pc = "add_assistant", !.final = out.text,
                                      !.invoked = chat.invoked + 1]
              /\ UNCHANGED messages
         ELSE /\ chat' = ChatFail([chat EXCEPT !.invoked = chat.invoked + 1], "agent")
              /\ messages' = ExceptStore(messages, chat.user_at)
    /\ UNCHANGED <<records, now, ret, procs, tool, gate, agent>>

\* One turn of the async for over astream_events: event e arrives.
ChatEvent(e) ==
    /\ chat.pc = "events"
    /\ Len(chat.arrived) < MaxEvents
    /\ chat' = [chat EXCEPT !.arrived = Append(chat.arrived, e),
                            !.frames = Relay(chat.frames, e, Len(chat.arrived) + 1),
                            !.parts = Parts(chat.parts, e)]
    /\ UNCHANGED <<records, messages, now, ret, procs, tool, gate, agent>>

\* astream_events raises: the inner except yields the error frame.
ChatStreamRaise ==
    /\ chat.pc = "events"
    /\ chat' = ChatFail(chat, "stream")
    /\ messages' = ExceptStore(messages, chat.user_at)
    /\ UNCHANGED <<records, now, ret, procs, tool, gate, agent>>

\* The direct invoke made after every stream, whatever was collected.
NeedsDirectInvoke_Always(final_response) == TRUE

\* if not final_response.strip()
NeedsDirectInvoke(final_response) == Strip(final_response) = <<>>

\* The event stream is exhausted: final_response = "".join(final_response_parts),
\* and "if not final_response.strip()" chooses the direct invoke.
ChatStreamEnd ==
    /\ chat.pc = "events"
    /\ chat' = [chat EXCEPT !.final = Join(chat.parts),
                            !.ended = TRUE,
                            !.pc = IF NeedsDirectInvoke(Join(chat.parts))
                                   THEN "fallback" ELSE "add_assistant"]
    /\ UNCHANGED <<records, messages, now, ret, procs, tool, gate, agent>>

\* result = hr_agent_system.invoke(initial_state) inside its own try: the last
\* message's content, a result without messages, or the fixed text when the
\* invoke raises.
ChatFallback ==
    /\ chat.pc = "fallback"
    /\ \E out \in AgentOutcomes \cup {[status |-> "empty", text |-> <<>>]} :
         chat' = [chat EXCEPT !.pc = "add_assistant",
                              !.invoked = chat.invoked + 1,
                              !.final = CASE out.status = "ok" -> out.text
                                          [] out.status = "empty" -> chat.final
                                          [] OTHER -> CompletedText]
    /\ UNCHANGED <<records, messages, now, ret, procs, tool, gate, agent>>

\* memory.add_message(sid, "assistant", ...) and the answer. _chat_sync stores
\* response_text whatever it is; stream_hr_response stores final_response only
\* "if final_response.strip()".
ChatAddAssistant ==
    /\ chat.pc = "add_assistant"
    /\ IF chat.mode = "stream" /\ Strip(chat.final) = <<>>
       THEN /\ chat' = ChatComplete(chat)
            /\ UNCHANGED <<records, messages>>
       ELSE \E out \in add_message_outcomes(records, messages, chat.sid, "assistant",
                                            chat.final, {"ts"}, now) :
              /\ records' = out.records
              /\ IF out.status = "ok"
                 THEN /\ messages' = out.messages
                      /\ chat' = ChatComplete([chat EXCEPT !.stored_at = Len(out.messages)])
                 ELSE /\ messages' = ExceptStore(out.messages, chat.user_at)
                      /\ chat' = ChatFail(chat, IF chat.mode = "sync" THEN "agent"
                                                ELSE "stream")
    /\ UNCHANGED <<now, ret, procs, tool, gate, agent>>

\* The response has gone out; the next request can come.
ChatReturn ==
    /\ chat.pc = "done"
    /\ chat' = IdleChat
    /\ UNCHANGED <<records, messages, now, ret, procs, tool, gate, agent>>

InitChat == Init

NextChat ==
    \/ \E mode \in {"sync", "stream"}, session_id \in {"", "s1"} :
          ChatStart(mode, session_id)
    \/ ChatAddUser
    \/ ChatGetContext
    \/ ChatInvoke
    \/ \E e \in Events : ChatEvent(e)
    \/ ChatStreamRaise
    \/ ChatStreamEnd
    \/ ChatFallback
    \/ ChatAddAssistant
    \/ ChatReturn

SpecChat == InitChat /\ [][NextChat]_vars

\* ---------------------------------------------------------------- claims on SpecChat

\* Row i of memory_messages is a message of session sid with this role and text.
IsMessageOf(i, sid, role, content) ==
    /\ i \in 1 .. Len(messages)
    /\ messages[i].role = role
    /\ messages[i].content = content
    /\ \E r \in RowsOf(records, sid) : r.id = messages[i].memory_id

\* C16: in a chat turn, synchronous or streaming, the user message is stored
\* before the agent system is invoked, and it stays in the session when the
\* reply generation fails: no failure handler removes it.
C16_UserMessageKept ==
    /\ chat.invoked > 0 => chat.user_at > 0
    /\ chat.user_at > 0 => IsMessageOf(chat.user_at, chat.sid, "user", chat.query)

\* C16's case: the agent system was invoked and failed, and the turn has
\* answered with its error.
C16_Witness ==
    /\ chat.pc = "done" /\ chat.failed \in {"agent", "stream"}
    /\ chat.invoked > 0 /\ chat.stored_at = 0
    /\ chat.delivered.kind = "error"

\* C17: for every chat turn that completes without error, the final text
\* delivered to the caller is the content of the assistant message the turn
\* appended to the session.
C17_FinalTextWrittenBack ==
    (chat.pc = "done" /\ chat.failed = "no") =>
        IsMessageOf(chat.stored_at, chat.sid, "assistant", chat.delivered.text)

\* A frame that ends a stream.
IsTerminal(f) == f.type \in {"complete", "error"}

\* The number of terminal frames among frames.
Terminals(frames) == Cardinality({i \in 1 .. Len(frames) : IsTerminal(frames[i])})

\* C18: every streaming response ends with exactly one terminal frame, a
\* complete frame carrying the final text or an error frame carrying a
\* message; no frame follows the terminal frame, and no stream ends without
\* one.
C18_OneTerminalFrame ==
    [][/\ (chat'.mode = "stream" /\ chat'.pc = "done") =>
             /\ chat'.frames # <<>>
             /\ IsTerminal(chat'.frames[Len(chat'.frames)])
             /\ Terminals(chat'.frames) = 1
             /\ LET last == chat'.frames[Len(chat'.frames)]
                IN IF last.type = "complete" THEN last.text = chat'.final
                   ELSE last.text # <<>>
       /\ Terminals(chat'.frames) > 0 => chat'.pc = "done"
       /\ Terminals(chat.frames) > 0 =>
             (chat'.frames = chat.frames \/ chat' = IdleChat)]_vars

\* C18's case: a stream that had relayed an event ended with an error frame.
C18_Witness ==
    /\ chat.mode = "stream" /\ chat.pc = "done" /\ chat.failed = "stream"
    /\ Len(chat.frames) >= 3
    /\ chat.frames[Len(chat.frames)].type = "error"

RECURSIVE TokenText(_)
\* The contents of the token events among evts, concatenated in their order.
TokenText(evts) ==
    IF evts = <<>> THEN <<>>
    ELSE IF Head(evts).event = "on_chat_model_stream"
         THEN Head(evts).content \o TokenText(Tail(evts))
         ELSE TokenText(Tail(evts))

\* The frames for lifecycle events stand in the order in which their events
\* arrived: each is the frame of its event, later frames are for later
\* events, and every event that has a frame has had it sent.
FramesInArrivalOrder ==
    /\ \A i \in 1 .. Len(chat.frames) :
          chat.frames[i].src > 0 =>
             /\ chat.frames[i].src <= Len(chat.arrived)
             /\ chat.frames[i].type = FrameType(chat.arrived[chat.frames[i].src])
             /\ chat.frames[i].text = chat.arrived[chat.frames[i].src].content
    /\ \A i, j \in 1 .. Len(chat.frames) :
          (i < j /\ chat.frames[i].src > 0 /\ chat.frames[j].src > 0) =>
             chat.frames[i].src < chat.frames[j].src
    /\ \A n \in 1 .. Len(chat.arrived) :
          FrameType(chat.arrived[n]) # "none" =>
             \E i \in 1 .. Len(chat.frames) : chat.frames[i].src = n
    /\ \A i \in 1 .. Len(chat.frames) :
          chat.frames[i].type = "start" => i = 1

MaxSteps == 1           \* model messages with tool calls in one run of the graph

\* should_continue with its test turned round.
should_continue_inverted(tool_calls) ==
    IF tool_calls THEN "end_conversation" ELSE "continue_to_tools"

\* should_continue
should_continue(tool_calls) ==
    IF tool_calls THEN "continue_to_tools" ELSE "end_conversation"

\* The conditional edge's table: where each answer of should_continue leads.
EdgeOf(answer) == IF answer = "continue_to_tools" THEN "tools" ELSE "end"

\* agent_executor is invoked with a state; session_id may be missing from it.
AgentStart(session_id) ==
    /\ agent.node = "entry"
    /\ Len(messages) + MaxSteps + 1 <= MaxMsgs
    /\ agent' = [IdleAgent EXCEPT !.node = "agent", !.sid = ChatSid(session_id)]
    /\ UNCHANGED <<records, messages, now, ret, procs, tool, gate, chat>>

\* agent_node up to response = runnable.invoke(...): the model's message, with
\* tool calls or without. steps counts the messages with tool calls.
AgentModel(content, tool_calls) ==
    /\ agent.node = "agent"
    /\ tool_calls => agent.steps < MaxSteps
    /\ agent' = [agent EXCEPT !.node = "persist", !.response = content,
                              !.tool_calls = tool_calls,
                              !.steps = IF tool_calls THEN agent.steps + 1
                                        ELSE agent.steps,
                              !.add = "none", !.stored_at = 0,
                              !.swallowed = FALSE]
    /\ UNCHANGED <<records, messages, now, ret, procs, tool, gate, chat>>

\* agent_node's try: MemoryManager().add_message(session_id, "assistant",
\* response.content, ...); except Exception: pass; return.
AgentPersist ==
    /\ agent.node = "persist"
    /\ \E out \in add_message_outcomes(records, messages, agent.sid, "assistant",
                                        agent.response, {"ts"}, now) :
         /\ records' = out.records
         /\ messages' = out.messages
         /\ agent' = [agent EXCEPT
                        !.node = "route",
                        !.add = out.status,
                        !.stored_at = IF Len(out.messages) > Len(messages)
                                      THEN Len(out.messages) ELSE 0,
                        !.swallowed = (out.status = "raise")]
    /\ UNCHANGED <<now, ret, procs, tool, gate, chat>>

\* The conditional edge after agent: should_continue chooses tools or END.
AgentRoute ==
    /\ agent.node = "route"
    /\ agent' = [agent EXCEPT !.node = EdgeOf(should_continue(agent.tool_calls))]
    /\ UNCHANGED <<records, messages, now, ret, procs, tool, gate, chat>>

\* tool_node has run; graph.add_edge("tools", "agent").
AgentTools ==
    /\ agent.node = "tools"
    /\ agent' = [agent EXCEPT !.node = "agent"]
    /\ UNCHANGED <<records, messages, now, ret, procs, tool, gate, chat>>

\* The run of the graph is over; the next one starts at the entry point.
AgentEnd ==
    /\ agent.node = "end"
    /\ agent' = IdleAgent
    /\ UNCHANGED <<records, messages, now, ret, procs, tool, gate, chat>>

InitAgent == Init

NextAgent ==
    \/ \E session_id \in {"", "s1"} : AgentStart(session_id)
    \/ \E content \in Replies, tool_calls \in BOOLEAN : AgentModel(content, tool_calls)
    \/ AgentPersist
    \/ AgentRoute
    \/ AgentTools
    \/ AgentEnd

SpecAgent == InitAgent /\ [][NextAgent]_vars

\* The model emits a message without tool calls.
AgentModelFinal == \E content \in Replies : AgentModel(content, FALSE)

\* The graph runtime runs the node that is due, and the model eventually
\* emits a message without tool calls.
SpecAgentFair ==
    /\ SpecAgent
    /\ WF_vars(AgentPersist)
    /\ WF_vars(AgentRoute)
    /\ WF_vars(AgentTools)
    /\ SF_vars(AgentModelFinal)

\* C20: add_message never returns normally without the message having been
\* persisted: a failure of the store during session creation, message insert
\* or window update reaches add_message's caller as an exception; it is
\* agent_node, a caller, that passes over it.
C20_AddMessageRaisesOrPersists ==
    agent.add # "none" =>
        /\ agent.add = "ok" =>
              /\ IsMessageOf(agent.stored_at, agent.sid, "assistant", agent.response)
              /\ ~agent.swallowed
        /\ agent.stored_at = 0 => agent.add = "raise"
        /\ agent.swallowed <=> agent.add = "raise"

\* C20's case: the store failed before the message was written, add_message
\* raised, and agent_node went on to the graph's next edge.
C20_Witness ==
    /\ agent.node \in {"route", "tools", "end"}
    /\ agent.add = "raise" /\ agent.stored_at = 0 /\ agent.swallowed

\* C29: the agent loop goes from the agent node to the tools node exactly
\* when the last model message carries tool calls, always returns from the
\* tools node to the agent node, and ends exactly when the model's message
\* has no tool calls; if the model eventually emits a message without tool
\* calls, the loop terminates.
C29_LoopRoutesAndTerminates ==
    /\ [][/\ agent.node = "route" =>
               agent'.node = IF agent.tool_calls THEN "tools" ELSE "end"
          /\ agent.node = "tools" => agent'.node = "agent"
          /\ agent'.node = "tools" => (agent.node = "route" /\ agent.tool_calls)
          /\ agent'.node = "end" => (agent.node = "route" /\ ~agent.tool_calls)]_vars
    /\ (agent.node = "agent") ~> (agent.node = "end")

\* C29's case: a run of the graph went through the tools node, came back to
\* the agent node and ended.
C29_Witness ==
    agent.node = "end" /\ agent.steps >= 1 /\ ~agent.tool_calls

\* C30: in a streaming chat turn the agent system is run once, and a second,
\* direct invocation happens if and only if the event stream finished without
\* error and the concatenated streamed tokens are empty or whitespace-only;
\* an assistant message is stored for the turn only when the resulting final
\* text is not whitespace-only.
C30_SecondInvocationOnlyOnEmptyStream ==
    (chat.mode = "stream" /\ chat.frames # <<>> /\ chat.frames[1].type = "start") =>
        /\ chat.invoked \in {1, 2}
        /\ chat.invoked = 2 => (chat.ended /\ Strip(TokenText(chat.arrived)) = <<>>)
        /\ chat.pc = "done" =>
              (chat.invoked = 2 <=>
                  (chat.ended /\ Strip(TokenText(chat.arrived)) = <<>>))
        /\ chat.stored_at > 0 =>
              /\ Strip(chat.final) # <<>>
              /\ IsMessageOf(chat.stored_at, chat.sid, "assistant", chat.final)

\* C30's case: only a whitespace token was streamed, the direct invocation
\* answered with text, and that text was stored.
C30_Witness ==
    /\ chat.mode = "stream" /\ chat.pc = "done" /\ chat.invoked = 2
    /\ chat.parts = << <<" ">> >>
    /\ chat.final = <<"b">> /\ chat.stored_at > 0

====
